---- MODULE Spec2Model ----
(***************************************************************************)
(* Model of the SmartPDF-Analyzer page-processing pipeline:                *)
(*   datasheet_parser.py  (main, process_datasheet)                        *)
(*   api_client.py        (OpenAIClient.process_page)                      *)
(*   markdown_generator.py (create/merge/clean/add_table_of_contents)      *)
(*   pdf_utils.py         (extract_images_from_pdf, get_pdf_metadata)      *)
(*                                                                         *)
(* Texts are sequences of characters.  A few fixed words of the source     *)
(* ("Page", "<thinking>", "</thinking>", the literals the code writes)     *)
(* are single elements of a text, so that bounded texts can hold them.     *)
(***************************************************************************)
EXTENDS Integers, Sequences, FiniteSets, TLC

VARIABLES
    args,                 \* the run's arguments (argparse namespace / keyword arguments)
    pdf,                  \* the source document: page count and metadata fields
    pc,                   \* position of the control thread
    exit_code,            \* value returned by main: <<>> while it has not returned, else <<code>>
    metadata,             \* process_datasheet: metadata
    image_paths,          \* process_datasheet: image_paths (page numbers of page_XXX.png)
    i,                    \* process_datasheet: loop index (1-based position in image_paths)
    page_markdown_files,  \* process_datasheet: page_markdown_files (page numbers of the files)
    files,                \* output directory: page number -> content of the per-page file
    write_log,            \* page numbers of the per-page files in the order they were written
    requests,             \* every request posted to the endpoint, in order
    in_flight,            \* number of posted requests that have not completed
    returned,             \* text returned by process_page for the current page
    error_log,            \* "Error processing page N" log records, in order
    merged,               \* the merged output file: <<>> while absent, <<content>> once written
    txt_in,               \* text functions: the input text
    txt_op,               \* text functions: the function applied
    txt_out               \* text functions: its result

vars == <<args, pdf, pc, exit_code, metadata, image_paths, i, page_markdown_files,
          files, write_log, requests, in_flight, returned, error_log, merged,
          txt_in, txt_op, txt_out>>

pipeVars == <<args, pdf, pc, exit_code, metadata, image_paths, i, page_markdown_files,
              files, write_log, requests, in_flight, returned, error_log, merged>>

textVars == <<txt_in, txt_op, txt_out>>

(***************************************************************************)
(* Bounds of the model.                                                    *)
(***************************************************************************)
MaxPages == 3
MaxCW == 2
MaxLen == 4
MaxX == 2
MaxY == 2

(***************************************************************************)
(* Characters.                                                             *)
(***************************************************************************)
None == "None"
Error == "Error"

NL == "\n"
SP == " "
HASH == "#"
DIGIT == "1"
LETTER == "a"
UPPER == "A"
PAGEWORD == "Page"
TOPEN == "<thinking>"
TCLOSE == "</thinking>"
CONTENTS == "Soderzhanie"
contents == "soderzhanie"

\* \s of Python's re
IsSpace(c) == c \in {NL, SP}
\* \d of Python's re
IsDigit(c) == c = DIGIT
\* \w of Python's re: alphanumeric characters and the underscore
IsWord(c) == c \in {LETTER, UPPER, DIGIT, "_", PAGEWORD, "page", CONTENTS, contents,
                    "Contents", "contents",
                    "Unknown", "unknown", "Dokumentatsiya", "dokumentatsiya",
                    "Avtor", "Opisanie", "T", "t", "U", "u", "S", "s"}

Max(S) == CHOOSE x \in S : \A y \in S : y <= x
Min(S) == CHOOSE x \in S : \A y \in S : x <= y

RECURSIVE SkipSpace(_, _)
SkipSpace(s, k) == IF k <= Len(s) /\ IsSpace(s[k]) THEN SkipSpace(s, k + 1) ELSE k

RECURSIVE SkipDigit(_, _)
SkipDigit(s, k) == IF k <= Len(s) /\ IsDigit(s[k]) THEN SkipDigit(s, k + 1) ELSE k

RECURSIVE SkipNL(_, _)
SkipNL(s, k) == IF k <= Len(s) /\ s[k] = NL THEN SkipNL(s, k + 1) ELSE k

RECURSIVE SkipLine(_, _)
SkipLine(s, k) == IF k <= Len(s) /\ s[k] # NL THEN SkipLine(s, k + 1) ELSE k

RECURSIVE Join(_, _)
Join(texts, sep) ==
    IF texts = <<>> THEN <<>>
    ELSE IF Len(texts) = 1 THEN texts[1]
    ELSE texts[1] \o sep \o Join(Tail(texts), sep)

(***************************************************************************)
(* re.sub(r'\n{3,}', '\n\n', s): every maximal run of 3 or more newlines   *)
(* is replaced by two.                                                     *)
(***************************************************************************)
RECURSIVE CollapseFrom(_, _)
CollapseFrom(s, k) ==
    IF k > Len(s) THEN <<>>
    ELSE LET e == SkipNL(s, k) IN
         IF e - k >= 3 THEN <<NL, NL>> \o CollapseFrom(s, e)
         ELSE <<s[k]>> \o CollapseFrom(s, k + 1)

CollapseNewlines(s) == CollapseFrom(s, 1)

(***************************************************************************)
(* re.sub(r'<thinking>.*?</thinking>', '', s, flags=re.DOTALL): leftmost   *)
(* opening delimiter up to the nearest closing one, repeated on the rest.  *)
(***************************************************************************)
RECURSIVE StripFrom(_, _)
StripFrom(s, k) ==
    IF k > Len(s) THEN <<>>
    ELSE LET C == {p \in (k + 1)..Len(s) : s[p] = TCLOSE} IN
         IF s[k] = TOPEN /\ C # {}
         THEN StripFrom(s, Min(C) + 1)
         ELSE <<s[k]>> \o StripFrom(s, k + 1)

StripThinking(s) == StripFrom(s, 1)

\* api_client.py, the post-processing of the answer inside process_page
PostProcess(content) == CollapseNewlines(StripThinking(content))

(***************************************************************************)
(* The tail "\s*\n" of both page-marker patterns, tried at position k:     *)
(* greedy \s* gives back characters until a newline follows, so the match  *)
(* ends at the last newline of the whitespace run that starts at k.        *)
(* The result is the index of that newline, 0 when there is none.          *)
(***************************************************************************)
TailEnd(s, k) ==
    LET N == {p \in k..(SkipSpace(s, k) - 1) : s[p] = NL} IN
    IF N = {} THEN 0 ELSE Max(N)

\* r'\n\s*Page \d+\s*\n' (IGNORECASE) tried at k: index of the last character matched, or 0
MatchPageLine(s, k) ==
    IF s[k] # NL THEN 0
    ELSE LET j == SkipSpace(s, k + 1) IN
         IF j + 2 <= Len(s) /\ s[j] \in {PAGEWORD, "page"} /\ s[j + 1] = SP /\ IsDigit(s[j + 2])
         THEN TailEnd(s, SkipDigit(s, j + 2))
         ELSE 0

\* r'\n\s*\d+\s*\n' tried at k: index of the last character matched, or 0
MatchDigitLine(s, k) ==
    IF s[k] # NL THEN 0
    ELSE LET j == SkipSpace(s, k + 1)
             d == SkipDigit(s, j) IN
         IF d > j THEN TailEnd(s, d) ELSE 0

RECURSIVE SubPageFrom(_, _)
SubPageFrom(s, k) ==
    IF k > Len(s) THEN <<>>
    ELSE LET e == MatchPageLine(s, k) IN
         IF e > 0 THEN <<NL>> \o SubPageFrom(s, e + 1)
         ELSE <<s[k]>> \o SubPageFrom(s, k + 1)

RECURSIVE SubDigitFrom(_, _)
SubDigitFrom(s, k) ==
    IF k > Len(s) THEN <<>>
    ELSE LET e == MatchDigitLine(s, k) IN
         IF e > 0 THEN <<NL>> \o SubDigitFrom(s, e + 1)
         ELSE <<s[k]>> \o SubDigitFrom(s, k + 1)

RemovePageLines(s) == SubPageFrom(s, 1)
RemoveDigitLines(s) == SubDigitFrom(s, 1)

\* markdown_generator.py, clean_markdown
clean_markdown(content) == RemoveDigitLines(RemovePageLines(CollapseNewlines(content)))

(***************************************************************************)
(* str.strip(): leading and trailing whitespace removed.                   *)
(***************************************************************************)
RECURSIVE RStripLen(_, _)
RStripLen(s, k) == IF k >= 1 /\ IsSpace(s[k]) THEN RStripLen(s, k - 1) ELSE k

Strip(s) ==
    LET a == SkipSpace(s, 1)
        b == RStripLen(s, Len(s)) IN
    IF a > b THEN <<>> ELSE SubSeq(s, a, b)

\* str.lower() on one character
Lower(c) ==
    CASE c = UPPER -> LETTER
      [] c = PAGEWORD -> "page"
      [] c = CONTENTS -> contents
      [] c = "Contents" -> "contents"
      [] c = "Unknown" -> "unknown"
      [] c = "Dokumentatsiya" -> "dokumentatsiya"
      [] c = "T" -> "t"
      [] c = "U" -> "u"
      [] c = "S" -> "s"
      [] OTHER -> c

LowerText(s) == [k \in 1..Len(s) |-> Lower(s[k])]

RECURSIVE SkipHash(_, _)
SkipHash(s, k) == IF k <= Len(s) /\ s[k] = HASH THEN SkipHash(s, k + 1) ELSE k

\* the start of the line after the one position k lies in (Len(s) + 1 or more when there is none)
NextLineStart(s, k) == SkipLine(s, k) + 1

(***************************************************************************)
(* r'^(#{1,6})\s+(.+)$' (MULTILINE) tried at the line start k.  The hashes *)
(* must all be taken (a hash cannot match \s), so more than 6 of them give *)
(* no match.  \s+ is greedy over spaces and newlines and gives characters  *)
(* back until a character other than a newline follows for (.+), which     *)
(* then runs to the end of its line.  The result is <<level, first, last>> *)
(* (the text is s[first..last]) or <<>> when the pattern does not match.   *)
(***************************************************************************)
MatchHeading(s, k) ==
    LET h == SkipHash(s, k) - k
        p == k + h
        m == SkipSpace(s, p)
        T == {t \in (p + 1)..(IF m <= Len(s) THEN m ELSE Len(s)) : s[t] # NL} IN
    IF h < 1 \/ h > 6 \/ m = p \/ T = {} THEN <<>>
    ELSE <<h, Max(T), SkipLine(s, Max(T)) - 1>>

\* re.findall(r'^(#{1,6})\s+(.+)$', content, re.MULTILINE), scanning from the line start k
RECURSIVE HeadersFrom(_, _)
HeadersFrom(s, k) ==
    IF k > Len(s) THEN <<>>
    ELSE LET r == MatchHeading(s, k) IN
         IF r = <<>> THEN HeadersFrom(s, NextLineStart(s, k))
         ELSE <<[header_level |-> r[1], header_text |-> SubSeq(s, r[2], r[3])]>>
              \o HeadersFrom(s, r[3] + 2)

FindHeaders(s) == HeadersFrom(s, 1)

\* re.search(r'^#.+$', content, re.MULTILINE).end(): number of characters up to the end of
\* the first line that starts with a hash and holds one more character; -1 when no line does
RECURSIVE FirstHeaderEndFrom(_, _)
FirstHeaderEndFrom(s, k) ==
    IF k > Len(s) THEN -1
    ELSE IF s[k] = HASH /\ k + 1 <= Len(s) /\ s[k + 1] # NL THEN SkipLine(s, k) - 1
    ELSE FirstHeaderEndFrom(s, NextLineStart(s, k))

FirstHeaderEnd(s) == FirstHeaderEndFrom(s, 1)

\* an anchor that keeps the letter case of the heading
AnchorKeepsCase(header_text) ==
    LET hy == [k \in 1..Len(header_text) |->
                  IF header_text[k] = SP THEN "-" ELSE header_text[k]] IN
    SelectSeq(hy, LAMBDA c : IsWord(c) \/ c = "-")

\* anchor = header_text.lower().replace(' ', '-'); anchor = re.sub(r'[^\w\-]', '', anchor)
Anchor(header_text) ==
    LET low == LowerText(header_text)
        hy == [k \in 1..Len(low) |-> IF low[k] = SP THEN "-" ELSE low[k]] IN
    SelectSeq(hy, LAMBDA c : IsWord(c) \/ c = "-")

Spaces(n) == [k \in 1..n |-> SP]

\* a table of contents with level * 2 spaces of indentation
TocEntryIndentLevel(h) ==
    Spaces(h.header_level * 2) \o <<"-", SP, "[">> \o h.header_text
        \o <<"]", "(", HASH>> \o Anchor(h.header_text) \o <<")", NL>>

\* one line of the table of contents
TocEntry(h) ==
    Spaces((h.header_level - 1) * 2) \o <<"-", SP, "[">> \o h.header_text
        \o <<"]", "(", HASH>> \o Anchor(h.header_text) \o <<")", NL>>

RECURSIVE TocLines(_)
TocLines(hs) ==
    IF hs = <<>> THEN <<>>
    ELSE (IF LowerText(hs[1].header_text) = <<contents>> THEN <<>> ELSE TocEntry(hs[1]))
         \o TocLines(Tail(hs))

\* markdown_generator.py, add_table_of_contents; Error when re.search finds no line and
\* .end() is called on None
add_table_of_contents(content) ==
    LET headers == FindHeaders(content)
        toc == <<HASH, HASH, SP, CONTENTS, NL, NL>> \o TocLines(headers)
        e == FirstHeaderEnd(content) IN
    IF headers = <<>> THEN content
    ELSE IF e < 0 THEN Error
    ELSE SubSeq(content, 1, e) \o <<NL, NL>> \o toc \o <<NL>>
         \o SubSeq(content, e + 1, Len(content))

(***************************************************************************)
(* The run.  An optional integer is <<>> (None) or <<n>>.                  *)
(***************************************************************************)
OptPages == {<<>>} \cup {<<n>> : n \in 0..(MaxPages + 1)}
Languages == {None, "", "German"}
Truthy(language) == language \notin {None, ""}

Pdfs == [page_count : {MaxPages}, fields : {{}, {"/Title", "/Author", "/Subject"}}]

\* pdf_utils.py, get_pdf_metadata
get_pdf_metadata(doc) ==
    [title |-> IF "/Title" \in doc.fields THEN <<"T">> ELSE <<"Unknown">>,
     author |-> IF "/Author" \in doc.fields THEN <<"U">> ELSE <<"Unknown">>,
     subject |-> IF "/Subject" \in doc.fields THEN <<"S">> ELSE <<>>,
     page_count |-> doc.page_count]

MaxOf(a, b) == IF a >= b THEN a ELSE b
MinOf(a, b) == IF a <= b THEN a ELSE b

\* pdf_utils.py, extract_images_from_pdf: the effective first page
RangeStart(total_pages, start_page) ==
    IF start_page = <<>> THEN 1 ELSE MaxOf(1, MinOf(start_page[1], total_pages))

\* a last page that is not raised to the first page
RangeEndNoMax(total_pages, start_page, end_page) ==
    IF end_page = <<>> THEN total_pages
    ELSE MinOf(end_page[1], total_pages)

\* pdf_utils.py, extract_images_from_pdf: the effective last page
RangeEnd(total_pages, start_page, end_page) ==
    IF end_page = <<>> THEN total_pages
    ELSE MaxOf(RangeStart(total_pages, start_page), MinOf(end_page[1], total_pages))

\* pdf_utils.py, extract_images_from_pdf: the images page_XXX.png, as their page numbers
extract_images_from_pdf(total_pages, start_page, end_page) ==
    LET first == RangeStart(total_pages, start_page)
        last == RangeEnd(total_pages, start_page, end_page) IN
    [k \in 1..(last - first + 1) |-> first + (k - 1)]

\* datasheet_parser.py: page_num parsed from the image's file name
PageNumLoopCounter(idx) == idx
PageNum(idx) == image_paths[idx]

\* datasheet_parser.py: the instruction text of a page
Instructions(page_num) ==
    IF args.translate /\ Truthy(args.target_language)
    THEN [template |-> "PAGE_INSTRUCTION_TEMPLATE_TRANSLATE", page_num |-> page_num,
          total_pages |-> metadata.page_count, target_language |-> args.target_language]
    ELSE [template |-> "PAGE_INSTRUCTION_TEMPLATE", page_num |-> page_num,
          total_pages |-> metadata.page_count, target_language |-> "-"]

\* the cleaned outputs of the pages that succeeded so far, oldest first
SucceededOutputs == [k \in 1..Len(page_markdown_files) |-> files[page_markdown_files[k]]]

LastN(seq, n) == IF Len(seq) <= n THEN seq ELSE SubSeq(seq, Len(seq) - n + 1, Len(seq))

\* the rendered window of the last context_window outputs
RenderedWindow == Join(LastN(SucceededOutputs, args.context_window), <<NL, NL>>)

\* datasheet_parser.py: previous_context = ""
PreviousContextWindow == RenderedWindow
PreviousContext == <<>>

\* api_client.py, process_page: the system message
SystemMessage(translate, target_language) ==
    [prompt |-> IF translate THEN "SYSTEM_MESSAGE_TRANSLATE" ELSE "SYSTEM_MESSAGE_EXTRACT",
     target_language |-> IF ~translate THEN "-"
                         ELSE IF Truthy(target_language) THEN target_language
                         ELSE "{target_language}",
     thinking_instruction |-> TRUE]

\* api_client.py, process_page: the messages of the request
MessagesWithContext(image, previous_context, instructions, translate, target_language) ==
    << [role |-> "system", content |-> SystemMessage(translate, target_language)],
       [role |-> "user", content |-> << [type |-> "text", text |-> previous_context],
                                        [type |-> "text", text |-> instructions],
                                        [type |-> "image_url", image |-> image] >>] >>
Messages(image, previous_context, instructions, translate, target_language) ==
    << [role |-> "system", content |-> SystemMessage(translate, target_language)],
       [role |-> "user", content |-> << [type |-> "text", text |-> instructions],
                                        [type |-> "image_url", image |-> image] >>] >>

\* what the endpoint may answer for a page: the page's own text, bare or after a scratch block
PageText(page, letter) == letter \o ToString(page)
Answers(page) ==
    { <<HASH, SP, PageText(page, "p")>>,
      <<TOPEN, LETTER, NL, LETTER, TCLOSE, NL, NL, PageText(page, "p"), NL, NL, NL, NL,
        DIGIT, NL, NL, PageText(page, "q"), NL>> }

\* datasheet_parser.py: the except clause of the loop body goes on with the next page
AfterFailureAbort(idx) == Len(image_paths) + 1
AfterFailureRetry(idx) == idx
AfterFailure(idx) == idx + 1

\* markdown_generator.py, merge_markdown_files: the header
Header(md) ==
    <<HASH, SP>> \o md.title \o <<NL, NL>>
    \o (IF md.author # <<>> THEN <<"*", "*", "Avtor", "*", "*", ":", SP>> \o md.author \o <<NL, NL>>
        ELSE <<>>)
    \o (IF md.subject # <<>> THEN <<"*", "*", "Opisanie", "*", "*", ":", SP>> \o md.subject \o <<NL, NL>>
        ELSE <<>>)
    \o <<"-", "-", "-", NL, NL>>

\* markdown_generator.py, merge_markdown_files: the files are read in the order of the list
Reverse(seq) == [k \in 1..Len(seq) |-> seq[Len(seq) + 1 - k]]
MergeOrder(file_paths) == file_paths

\* markdown_generator.py, merge_markdown_files: the text written to the merged file
merge_markdown_files(file_paths, md) ==
    LET existing == SelectSeq(MergeOrder(file_paths), LAMBDA f : f \in DOMAIN files)
        content == [k \in 1..Len(existing) |-> Strip(files[existing[k]])] IN
    Header(md) \o Join(content, <<NL, NL>>)

(***************************************************************************)
(* The arguments of a run.  Through main, process_datasheet is called with *)
(* context_window=0; a direct caller passes any window size.               *)
(***************************************************************************)
Args ==
    { a \in [entry : {"main", "process_datasheet"}, pdf_exists : BOOLEAN,
             translate : BOOLEAN, target_language : Languages,
             start_page : OptPages, end_page : OptPages,
             context_window : 0..MaxCW] :
        a.entry = "main" => a.context_window = 0 }

TextIdle == txt_in = <<>> /\ txt_op = "none" /\ txt_out = <<>>

Init ==
    /\ args \in Args
    /\ pdf \in Pdfs
    /\ pc = args.entry
    /\ exit_code = <<>>
    /\ metadata = [title |-> <<>>, author |-> <<>>, subject |-> <<>>, page_count |-> 0]
    /\ image_paths = <<>>
    /\ i = 1
    /\ page_markdown_files = <<>>
    /\ files = <<>>
    /\ write_log = <<>>
    /\ requests = <<>>
    /\ in_flight = 0
    /\ returned = <<>>
    /\ error_log = <<>>
    /\ merged = <<>>
    /\ TextIdle

\* an exception leaves process_datasheet: main's except clause returns 1, a direct caller sees it
Escape ==
    /\ pc' = "raised"
    /\ exit_code' = IF args.entry = "main" THEN <<1>> ELSE exit_code

\* datasheet_parser.py, main: the checks before process_datasheet is called
MainChecks ==
    /\ pc = "main"
    /\ IF ~args.pdf_exists
       THEN pc' = "exit" /\ exit_code' = <<1>>
       ELSE IF args.translate /\ ~Truthy(args.target_language)
       THEN pc' = "exit" /\ exit_code' = <<1>>
       ELSE IF args.start_page # <<>> /\ args.start_page[1] < 1
       THEN pc' = "exit" /\ exit_code' = <<1>>
       ELSE IF args.end_page # <<>> /\ args.start_page # <<>>
               /\ args.end_page[1] < args.start_page[1]
       THEN pc' = "exit" /\ exit_code' = <<1>>
       ELSE pc' = "process_datasheet" /\ exit_code' = exit_code
    /\ UNCHANGED <<args, pdf, metadata, image_paths, i, page_markdown_files, files,
                   write_log, requests, in_flight, returned, error_log, merged, textVars>>

\* datasheet_parser.py, process_datasheet up to the loop: metadata, page images, client.
\* Reading a missing document raises; so does a missing Poppler or API key (env_ok).
Prepare ==
    /\ pc = "process_datasheet"
    /\ \E env_ok \in BOOLEAN :
         IF args.pdf_exists /\ env_ok
         THEN /\ metadata' = get_pdf_metadata(pdf)
              /\ image_paths' = extract_images_from_pdf(pdf.page_count, args.start_page,
                                                        args.end_page)
              /\ page_markdown_files' = <<>>
              /\ i' = 1
              /\ pc' = "loop"
              /\ exit_code' = exit_code
         ELSE /\ Escape
              /\ UNCHANGED <<metadata, image_paths, page_markdown_files, i>>
    /\ UNCHANGED <<args, pdf, files, write_log, requests, in_flight, returned, error_log,
                   merged, textVars>>

\* the loop body up to requests.post inside process_page
PostRequest ==
    /\ pc = "loop"
    /\ i <= Len(image_paths)
    /\ LET page_num == PageNum(i)
           instructions == Instructions(page_num)
           previous_context == PreviousContext IN
       requests' = Append(requests,
           [page_num |-> page_num,
            image |-> image_paths[i],
            previous_context |-> previous_context,
            messages |-> Messages(image_paths[i], previous_context, instructions,
                                  args.translate, args.target_language)])
    /\ in_flight' = in_flight + 1
    /\ pc' = "posted"
    /\ UNCHANGED <<args, pdf, exit_code, metadata, image_paths, i, page_markdown_files,
                   files, write_log, returned, error_log, merged, textVars>>

\* the request fails (transport error, status other than 200, malformed body): process_page
\* raises and the except clause of the loop logs the page
ResponseFails ==
    /\ pc = "posted"
    /\ in_flight' = in_flight - 1
    /\ error_log' = Append(error_log, [page_num |-> PageNum(i), step |-> "process_page"])
    /\ i' = AfterFailure(i)
    /\ pc' = "loop"
    /\ UNCHANGED <<args, pdf, exit_code, metadata, image_paths, page_markdown_files, files,
                   write_log, requests, returned, merged, textVars>>

\* status 200 with an answer: process_page returns the post-processed text
ResponseOk ==
    /\ pc = "posted"
    /\ \E content \in Answers(image_paths[i]) : returned' = PostProcess(content)
    /\ in_flight' = in_flight - 1
    /\ pc' = "write"
    /\ UNCHANGED <<args, pdf, exit_code, metadata, image_paths, i, page_markdown_files, files,
                   write_log, requests, error_log, merged, textVars>>

\* clean_markdown, create_markdown_file, page_markdown_files.append
WritePage ==
    /\ pc = "write"
    /\ LET page_num == PageNum(i) IN
         /\ files' = (page_num :> clean_markdown(returned)) @@ files
         /\ write_log' = Append(write_log, page_num)
         /\ page_markdown_files' = Append(page_markdown_files, page_num)
    /\ i' = i + 1
    /\ pc' = "loop"
    /\ UNCHANGED <<args, pdf, exit_code, metadata, image_paths, requests, in_flight, returned,
                   error_log, merged, textVars>>

\* create_markdown_file raises (the directory or the file cannot be opened for writing):
\* no file is written and the except clause of the loop logs the page
WriteFails ==
    /\ pc = "write"
    /\ error_log' = Append(error_log, [page_num |-> PageNum(i), step |-> "create_markdown_file"])
    /\ i' = AfterFailure(i)
    /\ pc' = "loop"
    /\ UNCHANGED <<args, pdf, exit_code, metadata, image_paths, page_markdown_files, files,
                   write_log, requests, in_flight, returned, merged, textVars>>

\* a merge that does not wait for the end of the loop
MergeEarly ==
    /\ pc = "loop"
    /\ merged' = <<merge_markdown_files(page_markdown_files, metadata)>>
    /\ pc' = "toc"
    /\ UNCHANGED <<args, pdf, exit_code, metadata, image_paths, i, page_markdown_files, files,
                   write_log, requests, in_flight, returned, error_log, textVars>>

\* after the loop: merge_markdown_files writes the merged file
Merge ==
    /\ pc = "loop"
    /\ i > Len(image_paths)
    /\ merged' = <<merge_markdown_files(page_markdown_files, metadata)>>
    /\ pc' = "toc"
    /\ UNCHANGED <<args, pdf, exit_code, metadata, image_paths, i, page_markdown_files, files,
                   write_log, requests, in_flight, returned, error_log, textVars>>

\* the merged file is read, add_table_of_contents is applied, the file is rewritten and
\* process_datasheet returns; main then returns 0
AddToc ==
    /\ pc = "toc"
    /\ IF FindHeaders(merged[1]) # <<>> /\ FirstHeaderEnd(merged[1]) < 0
       THEN Escape /\ merged' = merged
       ELSE /\ merged' = <<add_table_of_contents(merged[1])>>
            /\ pc' = "done"
            /\ exit_code' = IF args.entry = "main" THEN <<0>> ELSE exit_code
    /\ UNCHANGED <<args, pdf, metadata, image_paths, i, page_markdown_files, files,
                   write_log, requests, in_flight, returned, error_log, textVars>>

Next ==
    \/ MainChecks
    \/ Prepare
    \/ PostRequest
    \/ ResponseFails
    \/ ResponseOk
    \/ WritePage
    \/ WriteFails
    \/ Merge
    \/ AddToc

Spec == Init /\ [][Next]_vars

(***************************************************************************)
(* The text functions on every bounded text: process_page's post-processing*)
(* of an answer and clean_markdown.                                        *)
(***************************************************************************)
Alphabet == {NL, SP, DIGIT, LETTER, PAGEWORD, TOPEN, TCLOSE}

TextsOver(chars, n) == UNION {[1..k -> chars] : k \in 0..n}

\* the answer "<thinking>X</thinking>\n\nY"
Wrapped(X, Y) == <<TOPEN>> \o X \o <<TCLOSE, NL, NL>> \o Y

WrappedTexts ==
    {Wrapped(X, Y) : X \in TextsOver(Alphabet \ {TCLOSE}, MaxX), Y \in TextsOver(Alphabet, MaxY)}

InitText ==
    /\ args = [entry |-> "text", pdf_exists |-> TRUE, translate |-> FALSE,
               target_language |-> None, start_page |-> <<>>, end_page |-> <<>>,
               context_window |-> 0]
    /\ pdf = [page_count |-> MaxPages, fields |-> {}]
    /\ pc = "text"
    /\ exit_code = <<>>
    /\ metadata = [title |-> <<>>, author |-> <<>>, subject |-> <<>>, page_count |-> 0]
    /\ image_paths = <<>>
    /\ i = 1
    /\ page_markdown_files = <<>>
    /\ files = <<>>
    /\ write_log = <<>>
    /\ requests = <<>>
    /\ in_flight = 0
    /\ returned = <<>>
    /\ error_log = <<>>
    /\ merged = <<>>
    /\ txt_in \in TextsOver(Alphabet, MaxLen) \cup WrappedTexts
    /\ txt_op = "none"
    /\ txt_out = <<>>

\* api_client.py, process_page: the answer's text is post-processed and returned
ProcessPageAnswer ==
    /\ pc = "text"
    /\ txt_op = "none"
    /\ txt_out' = PostProcess(txt_in)
    /\ txt_op' = "process_page"
    /\ UNCHANGED <<pipeVars, txt_in>>

\* markdown_generator.py, clean_markdown applied to a text
CleanMarkdown ==
    /\ pc = "text"
    /\ txt_op = "none"
    /\ txt_out' = clean_markdown(txt_in)
    /\ txt_op' = "clean_markdown"
    /\ UNCHANGED <<pipeVars, txt_in>>

NextText ==
    \/ ProcessPageAnswer
    \/ CleanMarkdown

SpecText == InitText /\ [][NextText]_vars

(***************************************************************************)
(* Properties.                                                             *)
(***************************************************************************)
Range(seq) == {seq[k] : k \in DOMAIN seq}

\* the loop over image_paths is over
LoopFinished == pc \in {"toc", "done"} \/ (pc = "loop" /\ i > Len(image_paths))

\* the pages whose processing was logged as failed
FailedPages == {error_log[k].page_num : k \in DOMAIN error_log}

\* the images whose extraction and write succeeded, in document order
SucceededImages == SelectSeq(image_paths, LAMBDA p : p \notin FailedPages)

Ascending(seq) == \A a, b \in DOMAIN seq : a < b => seq[a] < seq[b]

\* C1: whatever pages fail (the extraction call or the per-page write raising), the loop
\* goes on with the next page, attempts every page, and only then reaches the merge step;
\* a failure changes no per-page artifact and no artifact once written is changed or removed.
C1_FailuresIsolated ==
    [][ /\ (pc \in {"posted", "write"} =>
               /\ pc' \in {"write", "loop"}
               /\ (pc' = "loop" => i' = i + 1))
        /\ (pc = "loop" /\ i <= Len(image_paths) =>
               /\ pc' = "posted"
               /\ Len(requests') = i
               /\ requests'[i].image = image_paths[i])
        /\ (pc = "loop" /\ i > Len(image_paths) => pc' = "toc")
        /\ (pc' = "toc" => Range([k \in DOMAIN requests |-> requests[k].image])
                             = Range(image_paths))
        /\ (Len(error_log') > Len(error_log) =>
               files' = files /\ page_markdown_files' = page_markdown_files)
        /\ \A p \in DOMAIN files : p \in DOMAIN files' /\ files'[p] = files[p]
      ]_vars

\* a 3-page run in which page 2's request failed and page 3's write failed reached the merge
C1_Witness ==
    /\ pc = "toc"
    /\ image_paths = <<1, 2, 3>>
    /\ page_markdown_files = <<1>>
    /\ error_log = << [page_num |-> 2, step |-> "process_page"],
                      [page_num |-> 3, step |-> "create_markdown_file"] >>

\* C2: once the loop is over, the list handed to merge_markdown_files holds exactly the
\* pages whose extraction and write succeeded, in order, each under its own document page
\* number and holding that page's text; a failed page has no entry.
C2_ListIsSucceededPages ==
    LoopFinished =>
        /\ page_markdown_files = SucceededImages
        /\ \A k \in DOMAIN page_markdown_files :
              LET p == page_markdown_files[k] IN
              /\ p \in DOMAIN files
              /\ PageText(p, "p") \in Range(files[p])

\* 3 pages with page 2 failing: the list holds pages 1 and 3
C2_Witness ==
    /\ LoopFinished
    /\ image_paths = <<1, 2, 3>>
    /\ FailedPages = {2}
    /\ page_markdown_files = <<1, 3>>

IsPageMark(c) == c \in {PageText(p, "p") : p \in 1..(MaxPages + 1)}
PageOfMark(c) == CHOOSE p \in 1..(MaxPages + 1) : PageText(p, "p") = c

\* the pages whose text appears in a document, in the order of appearance
PagesIn(text) ==
    LET marks == SelectSeq(text, IsPageMark) IN
    [k \in 1..Len(marks) |-> PageOfMark(marks[k])]

\* C3: per-page artifacts are written in ascending page order, and the document written by
\* merge_markdown_files holds the texts of the successful pages in ascending page order.
C3_Ordering ==
    /\ Ascending(write_log)
    /\ pc = "toc" =>
          /\ PagesIn(merged[1]) = SucceededImages
          /\ Ascending(PagesIn(merged[1]))

\* page 1 failed, pages 2 and 3 were written and merged
C3_Witness ==
    /\ pc = "toc"
    /\ image_paths = <<1, 2, 3>>
    /\ write_log = <<2, 3>>
    /\ PagesIn(merged[1]) = <<2, 3>>
    /\ FailedPages = {1}

\* the cleaned outputs of the pages before page_num that succeeded, oldest first
OutputsBefore(page_num) ==
    LET earlier == SelectSeq(page_markdown_files, LAMBDA p : p < page_num) IN
    [k \in 1..Len(earlier) |-> files[earlier[k]]]

C5_NoContextWhenDisabled ==
    args.context_window = 0 =>
        \A k \in DOMAIN requests :
            LET r == requests[k] IN
            /\ r.previous_context = <<>>
            /\ Len(r.messages) = 2
            /\ r.messages[1].role = "system"
            /\ r.messages[2].role = "user"
            /\ Len(r.messages[2].content) = 2
            /\ r.messages[2].content[1] = [type |-> "text", text |-> Instructions(r.page_num)]
            /\ r.messages[2].content[2] = [type |-> "image_url", image |-> r.image]

\* through main (window 0): a page is requested after an earlier page succeeded and one failed
C5_Witness ==
    /\ args.entry = "main"
    /\ args.context_window = 0
    /\ Len(requests) = 3
    /\ Len(page_markdown_files) = 1
    /\ Len(error_log) = 1
    /\ pc = "posted"

MalformedRange(a) ==
    \/ a.start_page # <<>> /\ a.start_page[1] < 1
    \/ a.end_page # <<>> /\ a.end_page[1] < 1
    \/ a.start_page # <<>> /\ a.end_page # <<>> /\ a.end_page[1] < a.start_page[1]

PreconditionFails(a) ==
    \/ ~a.pdf_exists
    \/ a.translate /\ ~Truthy(a.target_language)
    \/ MalformedRange(a)

\* C6: main returns 0 for every run that completes, whatever pages failed; it returns
\* non-zero only when a precondition fails or an exception escapes process_datasheet; and
\* every malformed page range (start below 1, end below 1, end before start) is rejected
\* with a non-zero code before any page is processed.
C6_ExitCodes ==
    args.entry = "main" =>
        /\ (pc = "done" => exit_code = <<0>>)
        /\ (exit_code = <<1>> => PreconditionFails(args) \/ pc = "raised")
        /\ (MalformedRange(args) => requests = <<>> /\ exit_code # <<0>>)

\* C7: translation requested with an empty or missing target language never gets as far as
\* the pages, through main or in a direct call of process_datasheet: no request is sent, no
\* per-page artifact is written, the run does not complete.
C7_TranslateNeedsLanguage ==
    args.translate /\ ~Truthy(args.target_language) =>
        /\ requests = <<>>
        /\ DOMAIN files = {}
        /\ pc \notin {"posted", "write", "toc", "done"}

FirstClose(s) == Min({p \in 1..Len(s) : s[p] = TCLOSE})
IsWrapped(s) ==
    /\ Len(s) >= 4
    /\ s[1] = TOPEN
    /\ \E p \in 1..Len(s) : s[p] = TCLOSE
    /\ Len(s) >= FirstClose(s) + 2
    /\ s[FirstClose(s) + 1] = NL
    /\ s[FirstClose(s) + 2] = NL
WrappedY(s) == SubSeq(s, FirstClose(s) + 3, Len(s))

\* C9: for the answer "<thinking>X</thinking>\n\nY" process_page returns Y.
C9_ThinkingStripped ==
    (txt_op = "process_page" /\ IsWrapped(txt_in)) => txt_out = WrappedY(txt_in)

\* a text holds a run of n or more newlines
HasRun(s, n) == \E k \in 1..Len(s) : SkipNL(s, k) - k >= n

\* C10: clean_markdown leaves no run of 3 or more newlines, and a text with a paragraph
\* break (a run of 2 or more newlines) still has one afterwards: breaks become exactly one
\* blank line, they do not disappear.
C10_BlankLinesCollapse ==
    txt_op = "clean_markdown" =>
        /\ ~HasRun(txt_out, 3)
        /\ (HasRun(txt_in, 2) => HasRun(txt_out, 2))

\* the lines of a text (str.split('\n'))
RECURSIVE LinesFrom(_, _)
LinesFrom(s, k) ==
    LET e == SkipLine(s, k) IN
    IF e > Len(s) THEN <<SubSeq(s, k, Len(s))>>
    ELSE <<SubSeq(s, k, e - 1)>> \o LinesFrom(s, e + 1)

LinesOf(s) == LinesFrom(s, 1)

AllDigits(t) == t # <<>> /\ \A k \in DOMAIN t : IsDigit(t[k])

\* a line that is only a page-number marker: optional whitespace around an integer, or
\* around the word "Page" (any letter case), a space and an integer
IsMarkerLine(line) ==
    LET t == Strip(line) IN
    \/ AllDigits(t)
    \/ /\ Len(t) >= 3
       /\ t[1] \in {PAGEWORD, "page"}
       /\ t[2] = SP
       /\ AllDigits(SubSeq(t, 3, Len(t)))

\* C11: the result of clean_markdown holds no line that is only a page-number marker,
\* wherever the line stands in the text.
C11_NoMarkerLines ==
    txt_op = "clean_markdown" =>
        \A k \in DOMAIN LinesOf(txt_out) : ~IsMarkerLine(LinesOf(txt_out)[k])

(***************************************************************************)
(* add_table_of_contents on bounded documents: every short text over       *)
(* hashes, spaces, newlines and a letter, and documents of up to MaxLines  *)
(* lines, each made of hash marks, an optional space and a title.          *)
(***************************************************************************)
MaxLines == 2

HashCounts == {0, 1, 2, 7}
Titles == {<<>>, <<LETTER>>, <<UPPER, SP, "!">>, <<"_">>, <<CONTENTS>>, <<"Contents">>}
Hashes(n) == [k \in 1..n |-> HASH]

DocLines == {Hashes(h) \o sep \o t : h \in HashCounts, sep \in {<<>>, <<SP>>}, t \in Titles}

Documents ==
    {Join(ls, <<NL>>) : ls \in UNION {[1..n -> DocLines] : n \in 1..MaxLines}}
    \cup TextsOver({NL, SP, HASH, LETTER}, MaxLen)

InitToc ==
    /\ args = [entry |-> "toc", pdf_exists |-> TRUE, translate |-> FALSE,
               target_language |-> None, start_page |-> <<>>, end_page |-> <<>>,
               context_window |-> 0]
    /\ pdf = [page_count |-> MaxPages, fields |-> {}]
    /\ pc = "toc-text"
    /\ exit_code = <<>>
    /\ metadata = [title |-> <<>>, author |-> <<>>, subject |-> <<>>, page_count |-> 0]
    /\ image_paths = <<>>
    /\ i = 1
    /\ page_markdown_files = <<>>
    /\ files = <<>>
    /\ write_log = <<>>
    /\ requests = <<>>
    /\ in_flight = 0
    /\ returned = <<>>
    /\ error_log = <<>>
    /\ merged = <<>>
    /\ txt_in \in Documents
    /\ txt_op = "none"
    /\ txt_out = <<>>

\* re.search(r'^#.+$') finds no line although the heading scan found a heading:
\* .end() is called on None and add_table_of_contents raises AttributeError
TocRaises(content) == FindHeaders(content) # <<>> /\ FirstHeaderEnd(content) < 0

\* markdown_generator.py, add_table_of_contents applied to a document
AddTableOfContents ==
    /\ pc = "toc-text"
    /\ txt_op = "none"
    /\ ~TocRaises(txt_in)
    /\ txt_out' = add_table_of_contents(txt_in)
    /\ txt_op' = "add_table_of_contents"
    /\ UNCHANGED <<pipeVars, txt_in>>

\* markdown_generator.py, add_table_of_contents raising at line 115
AddTableOfContentsRaises ==
    /\ pc = "toc-text"
    /\ txt_op = "none"
    /\ TocRaises(txt_in)
    /\ txt_out' = <<>>
    /\ txt_op' = "AttributeError"
    /\ UNCHANGED <<pipeVars, txt_in>>

NextToc ==
    \/ AddTableOfContents
    \/ AddTableOfContentsRaises

SpecToc == InitToc /\ [][NextToc]_vars

\* first position of character c in text t, 0 when absent
IndexOf(t, c) ==
    IF \E k \in DOMAIN t : t[k] = c
    THEN CHOOSE k \in DOMAIN t : t[k] = c /\ \A j \in 1..(k - 1) : t[j] # c
    ELSE 0

\* the lines of the result that are table-of-contents entries (documents hold no bracket)
EntryLines(out) == SelectSeq(LinesOf(out), LAMBDA l : IndexOf(l, "[") > 0)

\* an entry line read back: spaces of indentation, "- [", the text, "](#", the anchor, ")"
EntryIndent(l) == IndexOf(l, "-") - 1
EntryText(l) == SubSeq(l, IndexOf(l, "[") + 1, IndexOf(l, "]") - 1)
EntryAnchor(l) == SubSeq(l, IndexOf(l, "(") + 2, Len(l) - 1)
WellFormedEntry(l) ==
    /\ IndexOf(l, "[") = EntryIndent(l) + 3
    /\ SubSeq(l, 1, EntryIndent(l)) = Spaces(EntryIndent(l))
    /\ l[EntryIndent(l) + 2] = SP
    /\ IndexOf(l, "]") > IndexOf(l, "[")
    /\ IndexOf(l, "(") = IndexOf(l, "]") + 1
    /\ l[IndexOf(l, "(") + 1] = HASH
    /\ l[Len(l)] = ")"

\* the entries of a result match a list of headings one to one, in order, each indented
\* two spaces per level below the first and showing the heading's text
EntriesMatch(out, hs) ==
    LET E == EntryLines(out) IN
    /\ Len(E) = Len(hs)
    /\ \A k \in DOMAIN E :
          /\ WellFormedEntry(E[k])
          /\ EntryIndent(E[k]) = 2 * (hs[k].header_level - 1)
          /\ EntryText(E[k]) = hs[k].header_text

\* a document where no line is only 1 to 6 hash marks and spaces
HashCount(l) == SkipHash(l, 1) - 1
OnlyHashes(l) == HashCount(l) \in 1..6 /\ SkipSpace(l, HashCount(l) + 1) > Len(l)
Tame(doc) == \A k \in DOMAIN LinesOf(doc) : ~OnlyHashes(LinesOf(doc)[k])

\* read line by line: a heading is a line of 1 to 6 hash marks, spaces, and text
IsHeadingLine(l) ==
    /\ HashCount(l) \in 1..6
    /\ HashCount(l) < Len(l)
    /\ l[HashCount(l) + 1] = SP
    /\ SkipSpace(l, HashCount(l) + 1) <= Len(l)

HeadingOfLine(l) ==
    [header_level |-> HashCount(l),
     header_text |-> SubSeq(l, SkipSpace(l, HashCount(l) + 1), Len(l))]

RECURSIVE HeadingLines(_)
HeadingLines(ls) ==
    IF ls = <<>> THEN <<>>
    ELSE (IF IsHeadingLine(ls[1]) THEN <<HeadingOfLine(ls[1])>> ELSE <<>>)
         \o HeadingLines(Tail(ls))

Alnum == {LETTER, UPPER, DIGIT, PAGEWORD, "page", CONTENTS, contents, "Contents", "contents"}

\* a heading text lowercased, each space made a hyphen, only the characters of keep left
AnchorKeeping(text, keep) ==
    LET hy == [k \in 1..Len(text) |-> IF text[k] = SP THEN "-" ELSE Lower(text[k])] IN
    SelectSeq(hy, LAMBDA c : c \in keep)

\* C13 as stated: the anchor of an entry is the heading text lowercased, spaces made
\* hyphens, every character that is neither alphanumeric nor a hyphen removed; it holds
\* only alphanumerics and hyphens, and equal heading texts get equal anchors.
C13_AnchorAlnumHyphen ==
    txt_op = "add_table_of_contents" =>
        LET E == EntryLines(txt_out) IN
        /\ \A k \in DOMAIN E :
              /\ EntryAnchor(E[k]) = AnchorKeeping(EntryText(E[k]), Alnum \cup {"-"})
              /\ \A j \in DOMAIN EntryAnchor(E[k]) : EntryAnchor(E[k])[j] \in Alnum \cup {"-"}
        /\ \A j, k \in DOMAIN E :
              EntryText(E[j]) = EntryText(E[k]) => EntryAnchor(E[j]) = EntryAnchor(E[k])

\* C13: the anchor of an entry is the heading text lowercased, spaces made hyphens, every
\* character that is not a word character (alphanumeric or underscore) nor a hyphen
\* removed; it holds only alphanumerics, underscores and hyphens, and equal heading
\* texts get equal anchors.
C13_AnchorWordHyphen ==
    txt_op = "add_table_of_contents" =>
        LET E == EntryLines(txt_out) IN
        /\ \A k \in DOMAIN E :
              /\ EntryAnchor(E[k]) = AnchorKeeping(EntryText(E[k]), Alnum \cup {"_", "-"})
              /\ \A j \in DOMAIN EntryAnchor(E[k]) :
                    EntryAnchor(E[k])[j] \in Alnum \cup {"_", "-"}
        /\ \A j, k \in DOMAIN E :
              EntryText(E[j]) = EntryText(E[k]) => EntryAnchor(E[j]) = EntryAnchor(E[k])

\* two headings with the same text, an upper-case letter, a space and a punctuation mark
C13_Witness ==
    /\ txt_op = "add_table_of_contents"
    /\ txt_in = <<HASH, SP, UPPER, SP, "!", NL, HASH, SP, UPPER, SP, "!">>
    /\ Len(EntryLines(txt_out)) = 2
    /\ EntryAnchor(EntryLines(txt_out)[1]) = <<LETTER, "-">>
    /\ EntryAnchor(EntryLines(txt_out)[2]) = <<LETTER, "-">>

\* the last position of the first heading line the scan recognises, 0 when there is none
RECURSIVE FirstHeadingLineEndFrom(_, _)
FirstHeadingLineEndFrom(s, k) ==
    IF k > Len(s) THEN 0
    ELSE LET r == MatchHeading(s, k) IN
         IF r = <<>> THEN FirstHeadingLineEndFrom(s, NextLineStart(s, k)) ELSE r[3]

FirstHeadingLineEnd(s) == FirstHeadingLineEndFrom(s, 1)

\* C14: add_table_of_contents returns a document without headings unchanged; otherwise it
\* returns the document with one block, which opens with the table's title, inserted
\* immediately after the first heading line, all other text unchanged and in order.
C14_TocAfterFirstHeading ==
    txt_op \in {"add_table_of_contents", "AttributeError"} =>
        IF FindHeaders(txt_in) = <<>>
        THEN txt_op = "add_table_of_contents" /\ txt_out = txt_in
        ELSE LET e == FirstHeadingLineEnd(txt_in)
                 rest == Len(txt_in) - e IN
             /\ txt_op = "add_table_of_contents"
             /\ Len(txt_out) > Len(txt_in)
             /\ SubSeq(txt_out, 1, e) = SubSeq(txt_in, 1, e)
             /\ SubSeq(txt_out, e + 1, e + 6) = <<NL, NL, HASH, HASH, SP, CONTENTS>>
             /\ SubSeq(txt_out, Len(txt_out) - rest + 1, Len(txt_out))
                    = SubSeq(txt_in, e + 1, Len(txt_in))

\* the lines of the merged document that open with a given sequence of characters
HasLineStarting(t, prefix) ==
    \E k \in DOMAIN LinesOf(t) :
        /\ Len(LinesOf(t)[k]) >= Len(prefix)
        /\ SubSeq(LinesOf(t)[k], 1, Len(prefix)) = prefix

Placeholders == {"Unknown", "Dokumentatsiya"}

\* C15: the header of the merged document has a title, author or subject line only when
\* the source document has that field; a missing field is left out and no placeholder
\* value stands for it.
C15_MissingFieldsOmitted ==
    merged # <<>> =>
        /\ HasLineStarting(merged[1], <<HASH, SP>>) => "/Title" \in pdf.fields
        /\ HasLineStarting(merged[1], <<"*", "*", "Avtor">>) => "/Author" \in pdf.fields
        /\ HasLineStarting(merged[1], <<"*", "*", "Opisanie">>) => "/Subject" \in pdf.fields
        /\ \A k \in DOMAIN merged[1] : merged[1][k] \notin Placeholders

\* the run is inside the page loop or at its end, before the merge step
InLoop == pc \in {"loop", "posted", "write"}

\* the pages the loop has finished with, successfully or not
TerminalPages == Range(page_markdown_files) \cup FailedPages

\* C16: a merged document exists only once every page in range has succeeded or failed;
\* at every point of the page loop the artifacts of the pages that succeeded so far are
\* written, no merged document is, and no step changes or removes a written artifact.
C16_MergedOnlyAfterLoop ==
    /\ [](/\ merged # <<>> => /\ pc \in {"toc", "done"}
                              /\ Range(image_paths) = TerminalPages
          /\ InLoop => /\ merged = <<>>
                       /\ Range(page_markdown_files)
                              = {PageNum(k) : k \in 1..(i - 1)} \ FailedPages
                       /\ Range(page_markdown_files) \subseteq DOMAIN files)
    /\ [][\A p \in DOMAIN files : p \in DOMAIN files' /\ files'[p] = files[p]]_vars

\* inside the loop with one page written, one page failed and a page still to come
C16_Witness ==
    /\ pc = "posted"
    /\ i = 3
    /\ page_markdown_files # <<>>
    /\ FailedPages # {}
    /\ Range(page_markdown_files) \subseteq DOMAIN files
    /\ merged = <<>>

(***************************************************************************)
(* extract_images_from_pdf on documents of 1 to MaxPages pages, called     *)
(* with every start_page and end_page from MaxOutside below the first page *)
(* to MaxOutside above the last, or left out.                              *)
(***************************************************************************)
MaxOutside == 2

PageArgs == {<<>>} \cup {<<n>> : n \in (1 - MaxOutside)..(MaxPages + MaxOutside)}

InitRange ==
    /\ args \in [entry : {"extract_images_from_pdf"}, pdf_exists : {TRUE},
                 translate : {FALSE}, target_language : {None},
                 start_page : PageArgs, end_page : PageArgs, context_window : {0}]
    /\ pdf \in [page_count : 1..MaxPages, fields : {{}}]
    /\ pc = "range"
    /\ exit_code = <<>>
    /\ metadata = [title |-> <<>>, author |-> <<>>, subject |-> <<>>, page_count |-> 0]
    /\ image_paths = <<>>
    /\ i = 1
    /\ page_markdown_files = <<>>
    /\ files = <<>>
    /\ write_log = <<>>
    /\ requests = <<>>
    /\ in_flight = 0
    /\ returned = <<>>
    /\ error_log = <<>>
    /\ merged = <<>>
    /\ TextIdle

\* pdf_utils.py, extract_images_from_pdf called directly
ExtractImages ==
    /\ pc = "range"
    /\ image_paths' = extract_images_from_pdf(pdf.page_count, args.start_page, args.end_page)
    /\ pc' = "range-done"
    /\ UNCHANGED <<args, pdf, exit_code, metadata, i, page_markdown_files, files, write_log,
                   requests, in_flight, returned, error_log, merged, textVars>>

NextRange == ExtractImages

SpecRange == InitRange /\ [][NextRange]_vars

\* C17: whatever start_page and end_page are requested, the effective range has
\* 1 <= start <= end <= page_count, and the images returned are those of the consecutive
\* pages start, start + 1, ..., end, in ascending order.
C17_RangeClamped ==
    pc = "range-done" =>
        LET start == RangeStart(pdf.page_count, args.start_page)
            end == RangeEnd(pdf.page_count, args.start_page, args.end_page) IN
        /\ 1 <= start /\ start <= end /\ end <= pdf.page_count
        /\ Len(image_paths) >= 1
        /\ image_paths[1] = start
        /\ image_paths[Len(image_paths)] = end
        /\ \A k \in 1..(Len(image_paths) - 1) : image_paths[k + 1] = image_paths[k] + 1

\* a request with start_page above end_page and end_page below the first page
C17_Witness ==
    /\ pc = "range-done"
    /\ args.start_page = <<MaxPages>>
    /\ args.end_page = <<0>>
    /\ pdf.page_count = MaxPages
    /\ image_paths = <<MaxPages>>

====
